---------------------------- MODULE Spec2Model ----------------------------
(***************************************************************************)
(* A model of the feedback analysis pipeline of ai-feedback-analyzer:      *)
(*   src/src/sentiment_analyzer.py  FreesentimentAnalyzer                  *)
(*   src/src/topic_extractor.py     FreeTopicExtractor                     *)
(*   src/src/agent.py               FeedbackAnalysisAgent                  *)
(*                                                                         *)
(* Python dictionaries are records; a key that a dictionary may or may not *)
(* hold is a field that the record may or may not have ("k" \in DOMAIN d). *)
(* Python lists are sequences.  Floats are integers in hundredths: a       *)
(* polarity of 0.1 is 10, a confidence of 1.0 is 100.  print() calls and   *)
(* timestamps are left out: no code reads them back.                       *)
(*                                                                         *)
(* What the libraries and the remote endpoints answer is the environment:  *)
(* each call draws it from a bounded set (a network error, an HTTP status, *)
(* a response body; the polarity TextBlob computes).                       *)
(***************************************************************************)
EXTENDS Integers, Sequences, FiniteSets, TLC

VARIABLES
    hf_api_key,        \* FreesentimentAnalyzer.hf_api_key / FreeTopicExtractor.hf_api_key: is a credential configured
    analysis_history,  \* FeedbackAnalysisAgent.analysis_history
    requested,         \* the remote endpoints a request has been sent to so far
    calls,             \* number of analyze_single_feedback calls made so far
    issued_ids,        \* the ids of the records those calls returned, in call order
    ret                \* the last operation: its name, its inputs and what it returned

vars == <<hf_api_key, analysis_history, requested, calls, issued_ids, ret>>

---------------------------------------------------------------------------
(* Python values *)

\* Python's None.
None == [none |-> TRUE]

\* A call that returned v, and a call that let an exception escape.
Returned(v) == [raised |-> FALSE, value |-> v]

Raised(e) == [raised |-> TRUE, exc |-> e]

Abs(x) == IF x < 0 THEN -x ELSE x

\* F(v), with v worked out once whatever the number of times F uses it: a
\* Python local variable.
Local(v, F(_)) == CHOOSE r \in {F(x) : x \in {v}} : TRUE

---------------------------------------------------------------------------
(* The environment of the remote sentiment adapter: requests.post on the   *)
(* sentiment and on the emotion endpoint.                                  *)

\* requests.post raised (connection error, timeout, ...).
NetworkError == [raises |-> TRUE]

\* requests.post returned a response with this status and body.
Response(status, body) == [raises |-> FALSE, status_code |-> status, body |-> body]

\* A body response.json() raises on, or whose parsed value cannot be indexed by 0.
NotJson == [valid |-> FALSE]

\* A body response.json() parses to data.
Json(data) == [valid |-> TRUE, data |-> data]

\* One {label, score} entry of a classifier's ranked list.
LabelEntry(l) == [label |-> l, score |-> 99]

\* An entry of a ranked list that holds no "label" key.
NoLabelEntry == [score |-> 99]

\* The labels the remote classifier may answer: the three the pipeline tests
\* for, and one spelled otherwise.
RemoteLabels == {"POSITIVE", "NEGATIVE", "NEUTRAL", "negative"}

\* The ranked lists of the sentiment endpoint: one list per input text.
RankedLists ==
    {<<LabelEntry(l)>> : l \in RemoteLabels}
        \cup {<<LabelEntry("NEGATIVE"), LabelEntry("POSITIVE")>>, <<NoLabelEntry>>, << >>}

SentimentBodies == {NotJson, Json(<< >>)} \cup {Json(<<r>>) : r \in RankedLists}

\* HTTP 200, and one status that is not 200.
StatusCodes == {200, 503}

SentimentResponses ==
    {NetworkError} \cup {Response(s, b) : s \in StatusCodes, b \in SentimentBodies}

EmotionBodies == {NotJson, Json(<< >>), Json(<< <<[label |-> "joy", score |-> 99]>> >>)}

EmotionResponses ==
    {NetworkError} \cup {Response(s, b) : s \in StatusCodes, b \in EmotionBodies}

---------------------------------------------------------------------------
(* FreesentimentAnalyzer.analyze_with_huggingface *)

\* The requests the adapter sends, in order.
hf_sentiment_requests(key, sent) ==
    IF ~key THEN << >>
    ELSE IF sent.raises \/ sent.status_code # 200 \/ ~sent.body.valid
         THEN <<"sentiment">>
         ELSE <<"sentiment", "emotion">>

\* Mutant: the emotion call shares nothing with the sentiment call's try block.
analyze_with_huggingface_guarded(key, sent, emo) ==
    IF ~key THEN None
    ELSE IF sent.raises THEN None
    ELSE IF sent.status_code # 200 THEN None
    ELSE IF ~sent.body.valid THEN None
    ELSE LET sentiment_data == sent.body.data
         IN  [method |-> "huggingface",
              sentiment |-> IF sentiment_data # << >> THEN sentiment_data[1] ELSE << >>,
              emotions |-> IF ~emo.raises /\ emo.status_code = 200 /\ emo.body.valid
                              /\ emo.body.data # << >>
                           THEN emo.body.data[1] ELSE << >>,
              success |-> TRUE]

\* Mutant: the credential is not looked at.
analyze_with_huggingface_nokey(key, sent, emo) ==
    analyze_with_huggingface_guarded(TRUE, sent, emo)

\* Mutant: the status of the sentiment response is not looked at.
analyze_with_huggingface_nostatus(key, sent, emo) ==
    IF ~key THEN None
    ELSE IF sent.raises THEN None
    ELSE analyze_with_huggingface_guarded(key, Response(200, sent.body), emo)

analyze_with_huggingface(key, sent, emo) ==
    IF ~key THEN None                                     \* line 31
    ELSE IF sent.raises THEN None                         \* line 39 raises: except, line 55
    ELSE IF sent.status_code # 200 THEN None              \* line 40 false: falls off the end
    ELSE IF ~sent.body.valid THEN None                    \* line 41 raises
    ELSE IF emo.raises THEN None                          \* line 44 raises
    ELSE IF emo.status_code = 200 /\ ~emo.body.valid THEN None   \* line 45 raises
    ELSE LET sentiment_data == sent.body.data
             emotion_data == IF emo.status_code = 200 THEN emo.body.data ELSE << >>
         IN  [method |-> "huggingface",
              sentiment |-> IF sentiment_data # << >> THEN sentiment_data[1] ELSE << >>,
              emotions |-> IF emotion_data # << >> THEN emotion_data[1] ELSE << >>,
              success |-> TRUE]

---------------------------------------------------------------------------
(* FreesentimentAnalyzer.analyze_with_textblob *)

\* TextBlob's polarity, in hundredths of [-1, 1].
Polarities == {-100, -55, -11, -10, -9, 0, 9, 10, 11, 55, 100}

\* TextBlob's subjectivity, in hundredths of [0, 1].
Subjectivities == {0, 60}

\* TextBlob raised (a text that is no str).
TextBlobError == [raises |-> TRUE]

Sentiment(p, s) == [raises |-> FALSE, polarity |-> p, subjectivity |-> s]

TextBlobOutcomes == {TextBlobError} \cup {Sentiment(p, s) : p \in Polarities, s \in Subjectivities}

\* The threshold 0.1 of lines 67 and 70, in hundredths.
PolarityThreshold == 10

\* Mutant: the thresholds are inclusive.
analyze_with_textblob_inclusive(tb) ==
    IF tb.raises THEN None
    ELSE LET polarity == tb.polarity
             sentiment_label ==
                 IF polarity >= PolarityThreshold THEN "POSITIVE"
                 ELSE IF polarity <= -PolarityThreshold THEN "NEGATIVE"
                 ELSE "NEUTRAL"
             confidence ==
                 IF polarity >= PolarityThreshold THEN polarity
                 ELSE IF polarity <= -PolarityThreshold THEN Abs(polarity)
                 ELSE 100 - Abs(polarity)
         IN  [method |-> "textblob",
              sentiment |-> <<[label |-> sentiment_label, score |-> confidence]>>,
              polarity |-> polarity,
              subjectivity |-> tb.subjectivity,
              success |-> TRUE]

analyze_with_textblob(tb) ==
    IF tb.raises THEN None                                \* except, line 89
    ELSE LET polarity == tb.polarity
             sentiment_label ==
                 IF polarity > PolarityThreshold THEN "POSITIVE"
                 ELSE IF polarity < -PolarityThreshold THEN "NEGATIVE"
                 ELSE "NEUTRAL"
             confidence ==
                 IF polarity > PolarityThreshold THEN polarity
                 ELSE IF polarity < -PolarityThreshold THEN Abs(polarity)
                 ELSE 100 - Abs(polarity)
         IN  [method |-> "textblob",
              sentiment |-> <<[label |-> sentiment_label, score |-> confidence]>>,
              polarity |-> polarity,
              subjectivity |-> tb.subjectivity,
              success |-> TRUE]

---------------------------------------------------------------------------
(* FreesentimentAnalyzer.analyze_sentiment *)

PreferredMethods == {"auto", "huggingface", "textblob"}

\* The strategies the coordinator calls, in order.
strategies_attempted(preferred_method) ==
    (IF preferred_method \in {"auto", "huggingface"} THEN <<"huggingface">> ELSE << >>)
        \o (IF preferred_method \in {"auto", "textblob"} THEN <<"textblob">> ELSE << >>)

\* Mutant: TextBlob is called only when the remote strategy yields nothing.
sentiment_results_short_circuit(key, preferred_method, sent, emo, tb) ==
    IF preferred_method \in {"auto", "huggingface"} /\ analyze_with_huggingface(key, sent, emo) # None
    THEN <<analyze_with_huggingface(key, sent, emo)>>
    ELSE IF preferred_method \in {"auto", "textblob"} /\ analyze_with_textblob(tb) # None
         THEN <<analyze_with_textblob(tb)>>
    ELSE << >>

\* results, as lines 99-109 leave it.
sentiment_results(key, preferred_method, sent, emo, tb) ==
    LET hf_result == IF preferred_method \in {"auto", "huggingface"}
                     THEN analyze_with_huggingface(key, sent, emo) ELSE None
        tb_result == IF preferred_method \in {"auto", "textblob"}
                     THEN analyze_with_textblob(tb) ELSE None
    IN  (IF hf_result # None THEN <<hf_result>> ELSE << >>)
            \o (IF tb_result # None THEN <<tb_result>> ELSE << >>)

\* Lines 112-128: what the coordinator returns for results.
combine_results(results) ==
    IF results = << >>
    THEN Returned([error |-> "All sentiment analysis methods failed", success |-> FALSE])
    ELSE IF Len(results) = 1 THEN Returned(results[1])
    ELSE IF results[1].sentiment # << >> /\ "label" \notin DOMAIN results[1].sentiment[1]
         THEN Raised("KeyError")                          \* line 125: ["sentiment"][0]["label"]
    ELSE Returned([combined_results |-> results,
                   primary_sentiment |-> IF results[1].sentiment # << >>
                                         THEN results[1].sentiment[1].label
                                         ELSE "UNKNOWN",
                   methods_used |-> [i \in 1..Len(results) |-> results[i].method],
                   success |-> TRUE])

analyze_sentiment(key, preferred_method, sent, emo, tb) ==
    combine_results(sentiment_results(key, preferred_method, sent, emo, tb))

\* The requests one analyze_sentiment call sends, in order.
sentiment_requests(key, preferred_method, sent) ==
    IF preferred_method \in {"auto", "huggingface"}
    THEN hf_sentiment_requests(key, sent) ELSE << >>

---------------------------------------------------------------------------
(* The sentiment analyzer on its own: one call of one of its methods, with *)
(* every environment.                                                      *)

Idle == [op |-> "none"]

InitSentiment ==
    /\ hf_api_key \in BOOLEAN
    /\ analysis_history = << >>
    /\ requested = {}
    /\ calls = 0
    /\ issued_ids = << >>
    /\ ret = Idle

CallAnalyzeWithHuggingface ==
    /\ ret = Idle
    /\ \E sent \in SentimentResponses, emo \in EmotionResponses :
        /\ ret' = [op |-> "analyze_with_huggingface",
                   sent |-> sent, emo |-> emo,
                   requests |-> hf_sentiment_requests(hf_api_key, sent),
                   result |-> analyze_with_huggingface(hf_api_key, sent, emo)]
        /\ requested' = requested \cup {ret'.requests[i] : i \in 1..Len(ret'.requests)}
    /\ UNCHANGED <<hf_api_key, analysis_history, calls, issued_ids>>

CallAnalyzeWithTextblob ==
    /\ ret = Idle
    /\ \E tb \in TextBlobOutcomes :
        ret' = [op |-> "analyze_with_textblob", tb |-> tb,
                result |-> analyze_with_textblob(tb)]
    /\ UNCHANGED <<hf_api_key, analysis_history, requested, calls, issued_ids>>

CallAnalyzeSentiment ==
    /\ ret = Idle
    /\ \E m \in PreferredMethods, sent \in SentimentResponses,
          emo \in EmotionResponses, tb \in TextBlobOutcomes :
        /\ ret' = [op |-> "analyze_sentiment",
                   preferred_method |-> m, sent |-> sent, emo |-> emo, tb |-> tb,
                   attempted |-> strategies_attempted(m),
                   requests |-> sentiment_requests(hf_api_key, m, sent),
                   hf_result |-> analyze_with_huggingface(hf_api_key, sent, emo),
                   tb_result |-> analyze_with_textblob(tb),
                   out |-> analyze_sentiment(hf_api_key, m, sent, emo, tb)]
        /\ requested' = requested \cup {ret'.requests[i] : i \in 1..Len(ret'.requests)}
    /\ UNCHANGED <<hf_api_key, analysis_history, calls, issued_ids>>

NextSentiment ==
    \/ CallAnalyzeWithHuggingface
    \/ CallAnalyzeWithTextblob
    \/ CallAnalyzeSentiment

SpecSentiment == InitSentiment /\ [][NextSentiment]_vars

---------------------------------------------------------------------------
(* Claims about the sentiment analyzer, checked under SpecSentiment.       *)

\* The results the two strategies yielded in the last analyze_sentiment call,
\* remote first.
Yielded ==
    (IF ret.hf_result # None THEN <<ret.hf_result>> ELSE << >>)
        \o (IF ret.tb_result # None THEN <<ret.tb_result>> ELSE << >>)

\* A strategy's result whose sentiment list starts with an entry holding a label.
CarriesLabel(r) == r.sentiment # << >> /\ "label" \in DOMAIN r.sentiment[1]

IsFailureRecord(v) == "error" \in DOMAIN v /\ v.success = FALSE

IsCombined(v) == "combined_results" \in DOMAIN v

\* C1: with preferred_method = "auto", analyze_sentiment raises nothing and
\* returns the one result unmodified when exactly one strategy yielded, a
\* failure record (success = false, an error message) when none did, and a
\* combined result (success = true, methods_used = huggingface, textblob) when
\* both did.
C1_ThreeOutcomes ==
    (ret.op = "analyze_sentiment" /\ ret.preferred_method = "auto") =>
        /\ ~ret.out.raised
        /\ Len(Yielded) = 1 => ret.out.value = Yielded[1]
        /\ Len(Yielded) = 0 => IsFailureRecord(ret.out.value)
        /\ Len(Yielded) = 2 =>
               /\ IsCombined(ret.out.value)
               /\ ret.out.value.success = TRUE
               /\ ret.out.value.methods_used = <<"huggingface", "textblob">>

\* C2: a combined result's primary_sentiment is the remote result's label when
\* the remote result carries one, and the lexicon result's label otherwise.
C2_PrimaryFallsBack ==
    (ret.op = "analyze_sentiment" /\ ~ret.out.raised /\ IsCombined(ret.out.value)) =>
        ret.out.value.primary_sentiment =
            IF CarriesLabel(ret.hf_result)
            THEN ret.hf_result.sentiment[1].label
            ELSE ret.tb_result.sentiment[1].label

\* How often the sentiment endpoint is requested in a request log.
SentimentRequestCount(reqs) == Cardinality({i \in 1..Len(reqs) : reqs[i] = "sentiment"})

\* C3: one analyze_sentiment call requests the sentiment endpoint at most
\* once; when that request raises or answers a status other than 200, the
\* remote adapter returns None, nothing is retried or raised, the lexicon
\* strategy is run next and its result is the one returned (the failure record
\* when it yields none).
C3_RemoteFailureDegrades ==
    ret.op = "analyze_sentiment" =>
        /\ SentimentRequestCount(ret.requests) <= 1
        /\ (/\ ret.preferred_method = "auto"
            /\ hf_api_key
            /\ (ret.sent.raises \/ ret.sent.status_code # 200)) =>
               /\ ret.hf_result = None
               /\ ret.requests = <<"sentiment">>
               /\ ret.attempted = <<"huggingface", "textblob">>
               /\ ~ret.out.raised
               /\ ret.tb_result # None => ret.out.value = ret.tb_result
               /\ ret.tb_result = None => IsFailureRecord(ret.out.value)

\* The remote request failed and the lexicon result was returned.
C3_Witness ==
    /\ ret.op = "analyze_sentiment"
    /\ ret.preferred_method = "auto"
    /\ hf_api_key
    /\ ret.sent.raises
    /\ ret.requests = <<"sentiment">>
    /\ ret.tb_result # None
    /\ ~ret.out.raised
    /\ ret.out.value = ret.tb_result

\* The sentiment call answered HTTP 200 with a list of labels.
SentimentCallSucceeded(sent) ==
    /\ ~sent.raises
    /\ sent.status_code = 200
    /\ sent.body.valid
    /\ sent.body.data # << >>
    /\ sent.body.data[1] # << >>
    /\ \A i \in 1..Len(sent.body.data[1]) : "label" \in DOMAIN sent.body.data[1][i]

\* The emotion call raised, answered another status than 200, or a body that
\* does not parse.
EmotionCallFailed(emo) == emo.raises \/ emo.status_code # 200 \/ ~emo.body.valid

\* C4: when the sentiment call succeeds, analyze_with_huggingface returns a
\* successful result carrying its labels whatever the emotion call does; a
\* failed emotion call only leaves emotions empty.
C4_EmotionFailureHarmless ==
    (/\ ret.op = "analyze_with_huggingface"
     /\ hf_api_key
     /\ SentimentCallSucceeded(ret.sent)) =>
        /\ ret.result # None
        /\ ret.result.success = TRUE
        /\ ret.result.sentiment = ret.sent.body.data[1]
        /\ EmotionCallFailed(ret.emo) => ret.result.emotions = << >>

\* C6: analyze_with_textblob labels a polarity POSITIVE iff it is above 0.1
\* (confidence = polarity), NEGATIVE iff it is below -0.1 (confidence =
\* |polarity|) and NEUTRAL otherwise (confidence = 1 - |polarity|), 0.1 and
\* -0.1 themselves being NEUTRAL; the confidence is within [0, 1].
C6_PolarityThresholds ==
    (ret.op = "analyze_with_textblob" /\ ~ret.tb.raises) =>
        LET p == ret.tb.polarity
            r == ret.result
        IN  /\ r # None
            /\ Len(r.sentiment) = 1
            /\ r.polarity = p
            /\ r.sentiment[1].label \in {"POSITIVE", "NEGATIVE", "NEUTRAL"}
            /\ r.sentiment[1].label = "POSITIVE" <=> p > 10
            /\ r.sentiment[1].label = "NEGATIVE" <=> p < -10
            /\ r.sentiment[1].label = "POSITIVE" => r.sentiment[1].score = p
            /\ r.sentiment[1].label = "NEGATIVE" => r.sentiment[1].score = -p
            /\ r.sentiment[1].label = "NEUTRAL" => r.sentiment[1].score = 100 - Abs(p)
            /\ r.sentiment[1].score \in 0..100

\* The boundary polarities 0.1 and -0.1 were analysed, and came out NEUTRAL.
C6_Witness ==
    /\ ret.op = "analyze_with_textblob"
    /\ ~ret.tb.raises
    /\ ret.tb.polarity \in {10, -10}
    /\ ret.result # None
    /\ ret.result.sentiment[1] = [label |-> "NEUTRAL", score |-> 90]

---------------------------------------------------------------------------
(* Text.  A Python str is the sequence of its characters.                  *)

UpperCase == <<"A", "B", "C", "D", "E", "F", "G", "H", "I", "J", "K", "L", "M", "N", "O", "P", "Q", "R", "S", "T", "U", "V", "W", "X", "Y", "Z">>

LowerCase == <<"a", "b", "c", "d", "e", "f", "g", "h", "i", "j", "k", "l", "m", "n", "o", "p", "q", "r", "s", "t", "u", "v", "w", "x", "y", "z">>

\* str.lower(), one character.
lower_char(c) ==
    IF \E i \in 1..Len(UpperCase) : UpperCase[i] = c
    THEN LowerCase[CHOOSE i \in 1..Len(UpperCase) : UpperCase[i] = c]
    ELSE c

\* str.lower().
lower(text) == [i \in 1..Len(text) |-> lower_char(text[i])]

\* The characters str.split() and the pattern \s take for white space.
Whitespace == {" "}

Letters == {UpperCase[i] : i \in 1..Len(UpperCase)} \cup {LowerCase[i] : i \in 1..Len(LowerCase)}

RECURSIVE count_from(_, _, _)
count_from(text, sub, i) ==
    IF i + Len(sub) - 1 > Len(text) THEN 0
    ELSE IF SubSeq(text, i, i + Len(sub) - 1) = sub
         THEN 1 + count_from(text, sub, i + Len(sub))
         ELSE count_from(text, sub, i + 1)

\* Mutant: a keyword counts once however often it occurs.
count_presence(text, sub) ==
    IF \E i \in 1..(Len(text) - Len(sub) + 1) : SubSeq(text, i, i + Len(sub) - 1) = sub
    THEN 1 ELSE 0

\* str.count(sub): the occurrences of sub that do not overlap, from the left.
count(text, sub) == count_from(text, sub, 1)

\* sub in text.
contains(text, sub) ==
    \E i \in 1..(Len(text) - Len(sub) + 1) : SubSeq(text, i, i + Len(sub) - 1) = sub

RECURSIVE split_from(_, _, _, _)
split_from(text, i, word, words) ==
    IF i > Len(text)
    THEN IF word = << >> THEN words ELSE Append(words, word)
    ELSE IF text[i] \in Whitespace
         THEN split_from(text, i + 1, << >>, IF word = << >> THEN words ELSE Append(words, word))
         ELSE split_from(text, i + 1, Append(word, text[i]), words)

\* str.split(): the maximal runs of characters that are no white space.
split(text) == split_from(text, 1, << >>, << >>)

\* [x] * n
Repeat(x, n) == [i \in 1..n |-> x]

\* A float that is a quotient, kept exact: num / den.
Rat(n, d) == [num |-> n, den |-> d]

\* a > b, for quotients of positive denominators.
RatGreater(a, b) == a.num * b.den > b.num * a.den

IntGreater(a, b) == a > b

\* sorted(seq, key=..., reverse=True) and Counter.most_common: descending by key,
\* elements of equal key in their original order.
SortedDesc(seq, Key(_), Greater(_, _)) ==
    LET sorted(s) ==
            LET before(j, i) ==
                    \/ Greater(Key(s[j]), Key(s[i]))
                    \/ (~Greater(Key(s[i]), Key(s[j])) /\ j < i)
                rank(i) == 1 + Cardinality({j \in 1..Len(s) : before(j, i)})
            IN  [p \in 1..Len(s) |-> s[CHOOSE i \in 1..Len(s) : rank(i) = p]]
    IN  Local(seq, sorted)

\* seq[:n]
Take(seq, n) == SubSeq(seq, 1, IF Len(seq) < n THEN Len(seq) ELSE n)

---------------------------------------------------------------------------
(* FreeTopicExtractor *)

\* self.product_keywords (lines 34-43), in the dictionary's order; a keyword is
\* the sequence of its characters.
product_keywords ==
    <<[category |-> "quality", keywords |-> <<
          <<"q", "u", "a", "l", "i", "t", "y">>,
          <<"b", "u", "i", "l", "d">>,
          <<"m", "a", "t", "e", "r", "i", "a", "l">>,
          <<"d", "u", "r", "a", "b", "l", "e">>,
          <<"c", "h", "e", "a", "p">>,
          <<"f", "l", "i", "m", "s", "y">>,
          <<"s", "o", "l", "i", "d">>,
          <<"s", "t", "u", "r", "d", "y">>>>],
      [category |-> "usability", keywords |-> <<
          <<"e", "a", "s", "y">>,
          <<"d", "i", "f", "f", "i", "c", "u", "l", "t">>,
          <<"u", "s", "e", "r", "-", "f", "r", "i", "e", "n", "d", "l", "y">>,
          <<"c", "o", "n", "f", "u", "s", "i", "n", "g">>,
          <<"i", "n", "t", "u", "i", "t", "i", "v", "e">>,
          <<"c", "o", "m", "p", "l", "i", "c", "a", "t", "e", "d">>>>],
      [category |-> "performance", keywords |-> <<
          <<"f", "a", "s", "t">>,
          <<"s", "l", "o", "w">>,
          <<"s", "p", "e", "e", "d">>,
          <<"p", "e", "r", "f", "o", "r", "m", "a", "n", "c", "e">>,
          <<"l", "a", "g">>,
          <<"s", "m", "o", "o", "t", "h">>,
          <<"r", "e", "s", "p", "o", "n", "s", "i", "v", "e">>>>],
      [category |-> "design", keywords |-> <<
          <<"d", "e", "s", "i", "g", "n">>,
          <<"a", "p", "p", "e", "a", "r", "a", "n", "c", "e">>,
          <<"l", "o", "o", "k">>,
          <<"s", "t", "y", "l", "e">>,
          <<"c", "o", "l", "o", "r">>,
          <<"b", "e", "a", "u", "t", "i", "f", "u", "l">>,
          <<"u", "g", "l", "y">>>>],
      [category |-> "price", keywords |-> <<
          <<"p", "r", "i", "c", "e">>,
          <<"c", "o", "s", "t">>,
          <<"e", "x", "p", "e", "n", "s", "i", "v", "e">>,
          <<"c", "h", "e", "a", "p">>,
          <<"v", "a", "l", "u", "e">>,
          <<"m", "o", "n", "e", "y">>,
          <<"b", "u", "d", "g", "e", "t">>>>],
      [category |-> "customer_service", keywords |-> <<
          <<"s", "e", "r", "v", "i", "c", "e">>,
          <<"s", "u", "p", "p", "o", "r", "t">>,
          <<"h", "e", "l", "p">>,
          <<"s", "t", "a", "f", "f">>,
          <<"r", "e", "p", "r", "e", "s", "e", "n", "t", "a", "t", "i", "v", "e">>,
          <<"r", "e", "s", "p", "o", "n", "s", "e">>>>],
      [category |-> "shipping", keywords |-> <<
          <<"s", "h", "i", "p", "p", "i", "n", "g">>,
          <<"d", "e", "l", "i", "v", "e", "r", "y">>,
          <<"p", "a", "c", "k", "a", "g", "i", "n", "g">>,
          <<"a", "r", "r", "i", "v", "e", "d">>,
          <<"p", "a", "c", "k", "a", "g", "e">>,
          <<"b", "o", "x">>>>],
      [category |-> "features", keywords |-> <<
          <<"f", "e", "a", "t", "u", "r", "e">>,
          <<"f", "u", "n", "c", "t", "i", "o", "n">>,
          <<"c", "a", "p", "a", "b", "i", "l", "i", "t", "y">>,
          <<"o", "p", "t", "i", "o", "n">>,
          <<"s", "e", "t", "t", "i", "n", "g", "s">>,
          <<"c", "u", "s", "t", "o", "m", "i", "z", "a", "t", "i", "o", "n">>>>]>>

Categories == {product_keywords[i].category : i \in 1..Len(product_keywords)}

\* self.stop_words as line 48 sets it (the NLTK corpus, when it is installed,
\* gives a larger set holding these words).
stop_words ==
    {<<"t", "h", "e">>,
     <<"a">>,
     <<"a", "n">>,
     <<"a", "n", "d">>,
     <<"o", "r">>,
     <<"b", "u", "t">>,
     <<"i", "n">>,
     <<"o", "n">>,
     <<"a", "t">>,
     <<"t", "o">>,
     <<"f", "o", "r">>,
     <<"o", "f">>,
     <<"w", "i", "t", "h">>,
     <<"b", "y">>}

\* top_n of extract_keywords_simple (line 52).
TopN == 10

\* Line 59: re.sub(r'[^a-zA-Z\s]', '', text_lower).
text_clean(text_lower) ==
    SelectSeq(text_lower, LAMBDA c : c \in Letters \/ c \in Whitespace)

\* Lines 67-70.
meaningful_words(text) ==
    SelectSeq(split(text_clean(lower(text))), LAMBDA word : word \notin stop_words /\ Len(word) > 2)

RECURSIVE distinct_from(_, _, _)
distinct_from(words, i, seen) ==
    IF i > Len(words) THEN seen
    ELSE IF \E j \in 1..Len(seen) : seen[j] = words[i]
         THEN distinct_from(words, i + 1, seen)
         ELSE distinct_from(words, i + 1, Append(seen, words[i]))

\* Counter(words): the distinct words, in the order they first occur, with
\* their frequency.
Counter(words) ==
    LET distinct == distinct_from(words, 1, << >>)
    IN  [k \in 1..Len(distinct) |->
            [word |-> distinct[k],
             frequency |-> Cardinality({i \in 1..Len(words) : words[i] = distinct[k]})]]

FrequencyOf(e) == e.frequency

\* FreeTopicExtractor.extract_keywords_simple
extract_keywords_simple(text) ==
    LET meaningful == meaningful_words(text)
        most_common == Take(SortedDesc(Counter(meaningful), FrequencyOf, IntGreater), TopN)
    IN  [k \in 1..Len(most_common) |->
            [word |-> most_common[k].word,
             frequency |-> most_common[k].frequency,
             relevance |-> Rat(most_common[k].frequency, Len(meaningful))]]

RECURSIVE score_from(_, _, _)
score_from(text_lower, keywords, k) ==
    IF k > Len(keywords) THEN 0
    ELSE (IF contains(text_lower, keywords[k]) THEN count(text_lower, keywords[k]) ELSE 0)
            + score_from(text_lower, keywords, k + 1)

RECURSIVE matched_keywords_from(_, _, _)
matched_keywords_from(text_lower, keywords, k) ==
    IF k > Len(keywords) THEN << >>
    ELSE (IF contains(text_lower, keywords[k])
          THEN Repeat(keywords[k], count(text_lower, keywords[k])) ELSE << >>)
            \o matched_keywords_from(text_lower, keywords, k + 1)

\* FreeTopicExtractor.extract_topics_with_categories
extract_topics_with_categories(text) ==
    LET text_lower == lower(text)
        score(k) == score_from(text_lower, product_keywords[k].keywords, 1)
        found == {k \in 1..Len(product_keywords) : score(k) > 0}
        index(c) == CHOOSE k \in found : product_keywords[k].category = c
    IN  [c \in {product_keywords[k].category : k \in found} |->
            [score |-> score(index(c)),
             matched_keywords |->
                 matched_keywords_from(text_lower, product_keywords[index(c)].keywords, 1),
             relevance |-> Rat(score(index(c)), Len(split(text)))]]

\* dict.items() of a categories map: the entries in the order they were
\* inserted, which is the order of product_keywords.
items(categories) ==
    LET present == SelectSeq(product_keywords, LAMBDA e : e.category \in DOMAIN categories)
    IN  [k \in 1..Len(present) |->
            [category |-> present[k].category, data |-> categories[present[k].category]]]

---------------------------------------------------------------------------
(* The sample texts. *)

\* "Terrible customer service. The product arrived damaged."
TextService ==
    <<"T", "e", "r", "r", "i", "b", "l", "e", " ", "c", "u", "s", "t", "o", "m", "e", "r", " ", "s", "e", "r", "v", "i", "c", "e", ".", " ", "T", "h", "e", " ", "p", "r", "o", "d", "u", "c", "t", " ", "a", "r", "r", "i", "v", "e", "d", " ", "d", "a", "m", "a", "g", "e", "d", ".">>

\* "Cheap build, poor quality"
TextCheap ==
    <<"C", "h", "e", "a", "p", " ", "b", "u", "i", "l", "d", ",", " ", "p", "o", "o", "r", " ", "q", "u", "a", "l", "i", "t", "y">>

\* "cheap flimsy build, slow, ugly design, no support"
TextMany ==
    <<"c", "h", "e", "a", "p", " ", "f", "l", "i", "m", "s", "y", " ", "b", "u", "i", "l", "d", ",", " ", "s", "l", "o", "w", ",", " ", "u", "g", "l", "y", " ", "d", "e", "s", "i", "g", "n", ",", " ", "n", "o", " ", "s", "u", "p", "p", "o", "r", "t">>

\* "Too expensive for the money"
TextPrice ==
    <<"T", "o", "o", " ", "e", "x", "p", "e", "n", "s", "i", "v", "e", " ", "f", "o", "r", " ", "t", "h", "e", " ", "m", "o", "n", "e", "y">>

\* "Helpful staff helped; great service and solid quality"
TextHelp ==
    <<"H", "e", "l", "p", "f", "u", "l", " ", "s", "t", "a", "f", "f", " ", "h", "e", "l", "p", "e", "d", ";", " ", "g", "r", "e", "a", "t", " ", "s", "e", "r", "v", "i", "c", "e", " ", "a", "n", "d", " ", "s", "o", "l", "i", "d", " ", "q", "u", "a", "l", "i", "t", "y">>

\* "solid quality but slow support"
TextSolid ==
    <<"s", "o", "l", "i", "d", " ", "q", "u", "a", "l", "i", "t", "y", " ", "b", "u", "t", " ", "s", "l", "o", "w", " ", "s", "u", "p", "p", "o", "r", "t">>

\* "It is ok"
TextPlain ==
    <<"I", "t", " ", "i", "s", " ", "o", "k">>

\* "cheap-build"
TextOneWord ==
    <<"c", "h", "e", "a", "p", "-", "b", "u", "i", "l", "d">>

\* ""
TextEmpty ==
    << >>

Texts == {TextService, TextCheap, TextMany, TextPrice, TextHelp, TextSolid, TextPlain, TextOneWord, TextEmpty}

\* extract_keywords_simple and extract_topics_with_categories are functions of
\* the text alone: their values on the sample texts.
KeywordsOf == [t \in Texts |-> extract_keywords_simple(t)]

CategoriesOf == [t \in Texts |-> extract_topics_with_categories(t)]

---------------------------------------------------------------------------
(* FreeTopicExtractor.extract_noun_phrases: blob.noun_phrases is TextBlob's. *)

NounPhrases(phrases) == [raises |-> FALSE, noun_phrases |-> phrases]

\* What TextBlob(text).noun_phrases gives: an exception, no phrase, or phrases
\* among which one is too short ("box") and one too long (four words).
NounPhraseOutcomes ==
    {TextBlobError,
     NounPhrases(<< >>),
     NounPhrases(<<<<"c", "u", "s", "t", "o", "m", "e", "r", " ", "s", "e", "r", "v", "i", "c", "e">>,
                   <<"b", "o", "x">>,
                   <<"a", " ", "b", " ", "c", " ", "d">>,
                   <<"c", "u", "s", "t", "o", "m", "e", "r", " ", "s", "e", "r", "v", "i", "c", "e">>>>)}

\* list(set(meaningful_phrases)): a list in no particular order, kept as a set.
extract_noun_phrases(np) ==
    IF np.raises THEN {}                                  \* except, line 171: []
    ELSE LET meaningful_phrases ==
                 SelectSeq(np.noun_phrases,
                           LAMBDA phrase : Len(split(phrase)) <= 3 /\ Len(phrase) > 3)
         IN  {meaningful_phrases[i] : i \in 1..Len(meaningful_phrases)}

---------------------------------------------------------------------------
(* FreeTopicExtractor.extract_with_huggingface: the zero-shot endpoint.    *)

\* The parsed body {"labels": [...], "scores": [...]}; scores in hundredths.
ZeroShot(labels, scores) == Json([labels |-> labels, scores |-> scores])

\* NotJson stands also for a parsed body without "labels" or "scores".
ZeroShotBodies ==
    {NotJson,
     ZeroShot(<<"price", "quality", "shipping">>, <<80, 10, 5>>),
     ZeroShot(<<"customer_service", "quality">>, <<95>>)}

ZeroShotResponses ==
    {NetworkError} \cup {Response(s, b) : s \in StatusCodes, b \in ZeroShotBodies}

\* The requests the topic adapter sends.
hf_topic_requests(key) == IF ~key THEN << >> ELSE <<"zero-shot">>

\* The threshold 0.1 of line 138, in hundredths.
ConfidenceThreshold == 10

\* zip(labels, scores)
zip(labels, scores) ==
    [k \in 1..(IF Len(labels) < Len(scores) THEN Len(labels) ELSE Len(scores)) |->
        [label |-> labels[k], score |-> scores[k]]]

extract_with_huggingface(key, zs) ==
    IF ~key THEN None                                     \* line 114
    ELSE IF zs.raises THEN None                           \* line 131 raises: except, line 152
    ELSE IF zs.status_code # 200 THEN None                \* line 133 false: falls off the end
    ELSE IF ~zs.body.valid THEN None                      \* line 134 or 137 raises
    ELSE LET result == zs.body.data
             confident == SelectSeq(zip(result.labels, result.scores),
                                    LAMBDA e : e.score > ConfidenceThreshold)
         IN  [topics |-> [k \in 1..Len(confident) |->
                            [topic |-> confident[k].label,
                             confidence |-> Rat(confident[k].score, 100),
                             method |-> "huggingface_classification"]],
              success |-> TRUE,
              method |-> "huggingface"]

---------------------------------------------------------------------------
(* FreeTopicExtractor._generate_topic_summary and analyze_topics           *)

\* min(relevance * 10, 1.0)
category_confidence(relevance) ==
    IF relevance.num * 10 < relevance.den
    THEN Rat(relevance.num * 10, relevance.den)
    ELSE Rat(1, 1)

ConfidenceOf(e) == e.confidence

_generate_topic_summary(analysis_results) ==
    LET from_categories ==
            IF "categories" \in DOMAIN analysis_results
            THEN LET its == items(analysis_results.categories)
                 IN  [k \in 1..Len(its) |->
                        [topic |-> its[k].category,
                         source |-> "category_matching",
                         confidence |-> category_confidence(its[k].data.relevance)]]
            ELSE << >>
        from_hf ==
            IF "hf_topics" \in DOMAIN analysis_results
            THEN [k \in 1..Len(analysis_results.hf_topics) |->
                    [topic |-> analysis_results.hf_topics[k].topic,
                     source |-> "huggingface",
                     confidence |-> analysis_results.hf_topics[k].confidence]]
            ELSE << >>
    IN  [primary_topics |-> SortedDesc(from_categories \o from_hf, ConfidenceOf, RatGreater),
         confidence_level |-> "medium",
         topic_distribution |-> << >>]

\* What the libraries do to one text during analyze_topics: whether keyword
\* extraction and category matching raise, what TextBlob's noun phrases are,
\* what the zero-shot endpoint answers.
TopicEnvs ==
    [keywords_raises : BOOLEAN, categories_raises : BOOLEAN,
     np : NounPhraseOutcomes, zs : ZeroShotResponses]

\* The strategies whose results analyze_topics keeps, in order.
topic_methods_used(key, env) ==
    (IF env.keywords_raises THEN << >> ELSE <<"keyword_frequency">>)
        \o (IF env.categories_raises THEN << >> ELSE <<"category_matching">>)
        \o <<"noun_phrases">>
        \o (IF extract_with_huggingface(key, env.zs) # None THEN <<"huggingface">> ELSE << >>)

\* FreeTopicExtractor.analyze_topics; keywords and categories are what
\* extract_keywords_simple and extract_topics_with_categories return for text.
analyze_topics_with(key, text, keywords, categories, env) ==
    LET hf_result == extract_with_huggingface(key, env.zs)
        results ==
            [original_text |-> text,
             methods_used |-> topic_methods_used(key, env),
             success |-> TRUE,
             noun_phrases |-> extract_noun_phrases(env.np)]
              @@ (IF env.keywords_raises THEN << >> ELSE [keywords |-> keywords])
              @@ (IF env.categories_raises THEN << >> ELSE [categories |-> categories])
              @@ (IF hf_result # None THEN [hf_topics |-> hf_result.topics] ELSE << >>)
    IN  results @@ [summary |-> _generate_topic_summary(results)]

analyze_topics(key, text, env) ==
    analyze_topics_with(key, text, KeywordsOf[text], CategoriesOf[text], env)

---------------------------------------------------------------------------
(* FeedbackAnalysisAgent._generate_insights                                *)
(*                                                                         *)
(* The strings the function formats are kept as records of their parts:    *)
(* "Overall sentiment: X" is SentimentFinding(X), "Key topic: c (mentioned *)
(* n times)" is TopicFinding(c, n), and the summary is the lower-cased     *)
(* label with the list of the topics named after "Main topics: ".          *)

\* dict.get("success") of a result dictionary.
GetSuccess(d) == "success" \in DOMAIN d /\ d.success

\* str.lower() of a sentiment label.
label_lower(l) ==
    CASE l = "POSITIVE" -> "positive"
      [] l = "NEGATIVE" -> "negative"
      [] l = "NEUTRAL" -> "neutral"
      [] l = "UNKNOWN" -> "unknown"
      [] OTHER -> l

SentimentFinding(label) == [finding |-> "Overall sentiment", label |-> label]

TopicFinding(category, score) == [finding |-> "Key topic", category |-> category, score |-> score]

\* f.split(':')[1].strip() of a topic finding: "c (mentioned n times)".
TopicMention(f) == [category |-> f.category, score |-> f.score]

\* The empty string insights["summary"] starts as.
EmptySummary == [empty |-> TRUE]

ImmediateAttention == "Immediate attention required - negative customer feedback"

MaintainQuality == "Maintain current quality - positive feedback"

ReviewQuality == "Review product quality control processes"

EvaluatePricing == "Evaluate pricing strategy"

ReviewService == "Review customer service procedures"

\* The number of categories the insights look at (line 135).
TopCategories == 3

ScoreOf(item) == item.data.score

\* Lines 131-135.
top_categories(categories) == Take(SortedDesc(items(categories), ScoreOf, IntGreater), TopCategories)

\* insights as line 104 creates it; bound says whether primary_sentiment has
\* been assigned, raised whether the try block was left by an exception.
NewInsights ==
    [bound |-> FALSE, raised |-> FALSE, exc |-> "", primary_sentiment |-> "",
     summary |-> EmptySummary, action_items |-> << >>,
     priority_level |-> "medium", key_findings |-> << >>]

\* Lines 113-126.
sentiment_insights(st, sentiment_result) ==
    IF ~GetSuccess(sentiment_result) THEN st
    ELSE IF /\ "combined_results" \notin DOMAIN sentiment_result
            /\ sentiment_result.sentiment # << >>
            /\ "label" \notin DOMAIN sentiment_result.sentiment[1]
         THEN [st EXCEPT !.raised = TRUE, !.exc = "KeyError"]       \* line 117
    ELSE LET primary_sentiment ==
                 IF "combined_results" \in DOMAIN sentiment_result
                 THEN sentiment_result.primary_sentiment
                 ELSE IF sentiment_result.sentiment # << >>
                      THEN sentiment_result.sentiment[1].label
                      ELSE "UNKNOWN"
         IN  [st EXCEPT
                !.bound = TRUE,
                !.primary_sentiment = primary_sentiment,
                !.key_findings = Append(@, SentimentFinding(primary_sentiment)),
                !.priority_level =
                    IF primary_sentiment = "NEGATIVE" THEN "high"
                    ELSE IF primary_sentiment = "POSITIVE" THEN "low"
                    ELSE @,
                !.action_items =
                    IF primary_sentiment = "NEGATIVE" THEN Append(@, ImmediateAttention)
                    ELSE IF primary_sentiment = "POSITIVE" THEN Append(@, MaintainQuality)
                    ELSE @]

\* Lines 138-146: one pass of the loop over the top categories.
category_insights(st, category, data) ==
    LET found == [st EXCEPT !.key_findings = Append(@, TopicFinding(category, data.score))]
    IN  IF category \in {"quality", "price"} /\ ~st.bound
        THEN [found EXCEPT !.raised = TRUE, !.exc = "NameError"]   \* lines 141, 143
        ELSE IF category = "quality" /\ st.primary_sentiment = "NEGATIVE"
             THEN [found EXCEPT !.action_items = Append(@, ReviewQuality)]
        ELSE IF category = "price" /\ st.primary_sentiment = "NEGATIVE"
             THEN [found EXCEPT !.action_items = Append(@, EvaluatePricing)]
        ELSE IF category = "customer_service"
             THEN [found EXCEPT !.action_items = Append(@, ReviewService)]
        ELSE found

RECURSIVE topic_insights_from(_, _, _)
topic_insights_from(st, top, k) ==
    IF st.raised \/ k > Len(top) THEN st
    ELSE topic_insights_from(category_insights(st, top[k].category, top[k].data), top, k + 1)

\* Lines 129-146.
topic_insights(st, topic_result) ==
    IF st.raised THEN st
    ELSE IF GetSuccess(topic_result) /\ "categories" \in DOMAIN topic_result
         THEN topic_insights_from(st, top_categories(topic_result.categories), 1)
         ELSE st

\* Lines 149-151.
summary_insights(st) ==
    IF st.raised THEN st
    ELSE IF ~st.bound THEN [st EXCEPT !.raised = TRUE, !.exc = "NameError"]   \* line 149
    ELSE LET topics == SelectSeq(st.key_findings, LAMBDA f : f.finding = "Key topic")
         IN  [st EXCEPT !.summary =
                [sentiment |-> label_lower(st.primary_sentiment),
                 main_topics |-> st.key_findings # << >>,
                 topics |-> [k \in 1..Len(topics) |-> TopicMention(topics[k])]]]

\* Mutant: the priority is left at its default.
_generate_insights_default_priority(sentiment_result, topic_result) ==
    LET st == summary_insights(
                  topic_insights(sentiment_insights(NewInsights, sentiment_result), topic_result))
    IN  [summary |-> st.summary,
         action_items |-> st.action_items,
         priority_level |-> "medium",
         key_findings |-> st.key_findings]
            @@ (IF st.raised THEN [error |-> st.exc] ELSE << >>)

\* FeedbackAnalysisAgent._generate_insights; feedback_text is not read.
_generate_insights(sentiment_result, topic_result) ==
    LET st == summary_insights(
                  topic_insights(sentiment_insights(NewInsights, sentiment_result), topic_result))
    IN  [summary |-> st.summary,
         action_items |-> st.action_items,
         priority_level |-> st.priority_level,
         key_findings |-> st.key_findings]
            @@ (IF st.raised THEN [error |-> st.exc] ELSE << >>)

---------------------------------------------------------------------------
(* The insight generator on its own: one call, on the results the sentiment *)
(* analyzer and the topic extractor can return.                            *)

\* What analyze_sentiment returns, over every remote sentiment response and
\* preferred method, an emotion call that finds nothing, and TextBlob failing
\* or finding a negative, a neutral or a positive polarity.
SentimentResults ==
    LET outs == {analyze_sentiment(key, m, sent, Response(200, Json(<< >>)), tb) :
                    key \in BOOLEAN, m \in PreferredMethods, sent \in SentimentResponses,
                    tb \in {TextBlobError, Sentiment(-100, 60), Sentiment(0, 0), Sentiment(100, 60)}}
    IN  {o.value : o \in {x \in outs : ~x.raised}}

\* What analyze_topics returns for the sample texts, with category matching
\* raising or not and the zero-shot endpoint failing or answering.
TopicResults ==
    {analyze_topics(key, t, [keywords_raises |-> FALSE, categories_raises |-> cr,
                             np |-> NounPhrases(<< >>), zs |-> zs]) :
        key \in BOOLEAN, t \in Texts, cr \in BOOLEAN,
        zs \in {NetworkError, Response(200, ZeroShot(<<"price", "quality", "shipping">>, <<80, 10, 5>>))}}

InitInsights ==
    /\ hf_api_key \in BOOLEAN
    /\ analysis_history = << >>
    /\ requested = {}
    /\ calls = 0
    /\ issued_ids = << >>
    /\ ret = Idle

CallGenerateInsights ==
    /\ ret = Idle
    /\ \E sentiment_result \in SentimentResults, topic_result \in TopicResults :
        ret' = [op |-> "_generate_insights",
                sentiment_result |-> sentiment_result,
                topic_result |-> topic_result,
                insights |-> _generate_insights(sentiment_result, topic_result)]
    /\ UNCHANGED <<hf_api_key, analysis_history, requested, calls, issued_ids>>

NextInsights == CallGenerateInsights

SpecInsights == InitInsights /\ [][NextInsights]_vars

---------------------------------------------------------------------------
(* Claims about the insight generator, checked under SpecInsights.         *)

\* The primary sentiment label of a sentiment result: UNKNOWN for a failed
\* result and for one that carries no label.
PrimaryLabel(sentiment_result) ==
    IF ~GetSuccess(sentiment_result) THEN "UNKNOWN"
    ELSE IF IsCombined(sentiment_result) THEN sentiment_result.primary_sentiment
    ELSE IF CarriesLabel(sentiment_result) THEN sentiment_result.sentiment[1].label
    ELSE "UNKNOWN"

\* C7: the insight's priority_level is high when the primary sentiment label
\* is NEGATIVE, low when it is POSITIVE and medium in every other case, also
\* when the function ends with its error field set.
C7_PriorityMapping ==
    ret.op = "_generate_insights" =>
        ret.insights.priority_level =
            CASE PrimaryLabel(ret.sentiment_result) = "NEGATIVE" -> "high"
              [] PrimaryLabel(ret.sentiment_result) = "POSITIVE" -> "low"
              [] OTHER -> "medium"

\* A combined result whose primary label is NEGATIVE got priority high, for a
\* text with matched categories.
C7_Witness ==
    /\ ret.op = "_generate_insights"
    /\ IsCombined(ret.sentiment_result)
    /\ PrimaryLabel(ret.sentiment_result) = "NEGATIVE"
    /\ "categories" \in DOMAIN ret.topic_result
    /\ DOMAIN ret.topic_result.categories # {}
    /\ ret.insights.priority_level = "high"

\* C8: for a sentiment result with success = false the insight has priority
\* medium, no error field, and the summary built from the label "unknown".
C8_FailedSentimentIsUnknown ==
    (ret.op = "_generate_insights" /\ ~GetSuccess(ret.sentiment_result)) =>
        /\ ret.insights.priority_level = "medium"
        /\ "error" \notin DOMAIN ret.insights
        /\ "sentiment" \in DOMAIN ret.insights.summary
        /\ ret.insights.summary.sentiment = "unknown"

\* The action item the claim gives a top category under a sentiment label.
CategoryItem(category, label) ==
    IF category = "quality" /\ label = "NEGATIVE" THEN <<ReviewQuality>>
    ELSE IF category = "price" /\ label = "NEGATIVE" THEN <<EvaluatePricing>>
    ELSE IF category = "customer_service" THEN <<ReviewService>>
    ELSE << >>

RECURSIVE CategoryItemsFrom(_, _, _)
CategoryItemsFrom(top, label, k) ==
    IF k > Len(top) THEN << >>
    ELSE CategoryItem(top[k].category, label) \o CategoryItemsFrom(top, label, k + 1)

\* The action items the claim gives a sentiment label and a topic result.
ExpectedActionItems(label, topic_result) ==
    (IF label = "NEGATIVE" THEN <<ImmediateAttention>>
     ELSE IF label = "POSITIVE" THEN <<MaintainQuality>>
     ELSE << >>)
        \o (IF "categories" \in DOMAIN topic_result
            THEN CategoryItemsFrom(
                     Take(SortedDesc(items(topic_result.categories), ScoreOf, IntGreater), 3),
                     label, 1)
            ELSE << >>)

\* C9: for a POSITIVE, NEGATIVE, NEUTRAL or failed sentiment result the action
\* items are the generic item of the label, then for each of the top three
\* categories by score the quality item (NEGATIVE only), the pricing item
\* (NEGATIVE only) or the customer-service item (whatever the sentiment).
C9_ActionItems ==
    (/\ ret.op = "_generate_insights"
     /\ \/ ~GetSuccess(ret.sentiment_result)
        \/ PrimaryLabel(ret.sentiment_result) \in {"POSITIVE", "NEGATIVE", "NEUTRAL"}) =>
        ret.insights.action_items =
            ExpectedActionItems(PrimaryLabel(ret.sentiment_result), ret.topic_result)

---------------------------------------------------------------------------
(* FeedbackAnalysisAgent._generate_batch_report                            *)

\* dict.get(key, {}) of a dictionary.
Get(d, k) == IF k \in DOMAIN d THEN d[k] ELSE << >>

\* Lines 174-179 for one record: the label it adds to sentiments (none: << >>),
\* or the KeyError of line 179.
record_sentiment(result) ==
    LET sentiment_data == Get(result.analysis, "sentiment")
    IN  IF ~GetSuccess(sentiment_data) THEN Returned(<< >>)
        ELSE IF "primary_sentiment" \in DOMAIN sentiment_data
             THEN Returned(<<sentiment_data.primary_sentiment>>)
        ELSE IF "sentiment" \in DOMAIN sentiment_data /\ sentiment_data.sentiment # << >>
             THEN IF "label" \in DOMAIN sentiment_data.sentiment[1]
                  THEN Returned(<<sentiment_data.sentiment[1].label>>)
                  ELSE Raised("KeyError")
        ELSE Returned(<< >>)

RECURSIVE sentiments_from(_, _)
sentiments_from(batch_results, k) ==
    IF k > Len(batch_results) THEN << >>
    ELSE record_sentiment(batch_results[k]).value \o sentiments_from(batch_results, k + 1)

\* Lines 181-183: sentiment_counts.
sentiment_counts(sentiments) ==
    [l \in {sentiments[i] : i \in 1..Len(sentiments)} |->
        Cardinality({i \in 1..Len(sentiments) : sentiments[i] = l})]

\* dict.get(key, 0) of a dictionary of counts.
GetCount(d, k) == IF k \in DOMAIN d THEN d[k] ELSE 0

\* topic_data["categories"] of a record when line 191 finds it non-empty.
record_categories(result) ==
    LET topic_data == Get(result.analysis, "topics")
    IN  IF "categories" \in DOMAIN topic_data THEN topic_data.categories ELSE << >>

RECURSIVE SumSeq(_, _)
SumSeq(f, k) == IF k > Len(f) THEN 0 ELSE f[k] + SumSeq(f, k + 1)

\* Lines 188-196: all_topics.
all_topics(batch_results) ==
    LET score(k, c) == IF c \in DOMAIN record_categories(batch_results[k])
                       THEN record_categories(batch_results[k])[c].score ELSE 0
        mention(k, c) == IF c \in DOMAIN record_categories(batch_results[k]) THEN 1 ELSE 0
    IN  [c \in UNION {DOMAIN record_categories(batch_results[k]) : k \in 1..Len(batch_results)} |->
            [total_score |-> SumSeq([k \in 1..Len(batch_results) |-> score(k, c)], 1),
             mentions |-> SumSeq([k \in 1..Len(batch_results) |-> mention(k, c)], 1)]]

RECURSIVE topic_order_from(_, _, _)
topic_order_from(batch_results, k, seen) ==
    IF k > Len(batch_results) THEN seen
    ELSE LET its == items(record_categories(batch_results[k]))
             new == SelectSeq(its, LAMBDA e : \A j \in 1..Len(seen) : seen[j] # e.category)
         IN  topic_order_from(batch_results, k + 1,
                              seen \o [j \in 1..Len(new) |-> new[j].category])

\* all_topics.items(): the categories in the order the loop first met them.
all_topics_items(batch_results) ==
    LET order == topic_order_from(batch_results, 1, << >>)
        topics == all_topics(batch_results)
    IN  [j \in 1..Len(order) |-> [topic |-> order[j], data |-> topics[order[j]]]]

TotalScoreOf(item) == item.data.total_score

\* The thresholds of lines 212 and 214, in percent.
HighNegativePercent == 30

MediumNegativePercent == 15

\* The number of topics the recommendations name (line 221).
TopTopics == 3

HighPriority == "HIGH PRIORITY: Over 30% negative feedback - immediate action required"

MediumPriority == "MEDIUM PRIORITY: Significant negative feedback detected"

Good == "GOOD: Mostly positive feedback, maintain current approach"

\* "Focus on improving: topic (mentioned n times)"
FocusOn(topic, mentions) == [recommendation |-> "Focus on improving", topic |-> topic, mentions |-> mentions]

\* Lines 210-223; negative_percentage = negative / total * 100 is compared
\* without the division (the float result compares like the exact one for every
\* total up to 60).
recommendations(negative, total, topic_items) ==
    LET top == Take(SortedDesc(topic_items, TotalScoreOf, IntGreater), TopTopics)
    IN  <<IF negative * 100 > HighNegativePercent * total THEN HighPriority
          ELSE IF negative * 100 > MediumNegativePercent * total THEN MediumPriority
          ELSE Good>>
            \o [j \in 1..Len(top) |-> FocusOn(top[j].topic, top[j].data.mentions)]

\* report as line 162 creates it.
NewReport ==
    [sentiment_distribution |-> << >>, topic_analysis |-> << >>, priority_insights |-> << >>,
     recommendations |-> << >>, statistics |-> << >>]

\* FeedbackAnalysisAgent._generate_batch_report
_generate_batch_report(batch_results) ==
    IF \E k \in 1..Len(batch_results) : record_sentiment(batch_results[k]).raised
    THEN NewReport @@ [error |-> "KeyError"]               \* line 179 raises
    ELSE LET filled(counts) ==
                 [NewReport EXCEPT
                    !.sentiment_distribution = counts,
                    !.topic_analysis = all_topics(batch_results),
                    !.statistics =
                        [total_analyzed |-> Len(batch_results),
                         successful_analysis |->
                             Cardinality({k \in 1..Len(batch_results) :
                                 GetSuccess(Get(batch_results[k].analysis, "sentiment"))}),
                         positive_feedback |-> GetCount(counts, "POSITIVE"),
                         negative_feedback |-> GetCount(counts, "NEGATIVE"),
                         neutral_feedback |-> GetCount(counts, "NEUTRAL")]]
             finished(report) ==
                 IF Len(batch_results) = 0
                 THEN report @@ [error |-> "ZeroDivisionError"]   \* line 210 raises
                 ELSE [report EXCEPT
                         !.recommendations =
                             recommendations(report.statistics.negative_feedback,
                                             Len(batch_results),
                                             all_topics_items(batch_results))]
         IN  Local(Local(sentiment_counts(sentiments_from(batch_results, 1)), filled), finished)

---------------------------------------------------------------------------
(* FeedbackAnalysisAgent.analyze_single_feedback and analyze_batch_feedback *)

\* One piece of feedback and what the libraries and the endpoints answer while
\* it is analysed.
Feedback(text, sent, emo, tb, topics) ==
    [text |-> text, sent |-> sent, emo |-> emo, tb |-> tb, topics |-> topics]

JoyRanked == Json(<< <<[label |-> "joy", score |-> 99]>> >>)

\* Both strategies succeed and every topic strategy too.
FeedbackNegative ==
    Feedback(TextCheap,
             Response(200, Json(<< <<LabelEntry("NEGATIVE"), LabelEntry("POSITIVE")>> >>)),
             Response(200, JoyRanked), Sentiment(-55, 60),
             [keywords_raises |-> FALSE, categories_raises |-> FALSE, np |-> NounPhrases(<< >>),
              zs |-> Response(200, ZeroShot(<<"price", "quality", "shipping">>, <<80, 10, 5>>))])

\* The network is down; the local strategies succeed.
FeedbackPositive ==
    Feedback(TextHelp, NetworkError, NetworkError, Sentiment(100, 60),
             [keywords_raises |-> FALSE, categories_raises |-> FALSE, np |-> NounPhrases(<< >>),
              zs |-> NetworkError])

\* The sentiment endpoint answers 200 with an entry that has no label.
FeedbackMalformed ==
    Feedback(TextSolid, Response(200, Json(<< <<NoLabelEntry>> >>)),
             Response(200, JoyRanked), Sentiment(0, 0),
             [keywords_raises |-> FALSE, categories_raises |-> FALSE, np |-> NounPhrases(<< >>),
              zs |-> Response(503, NotJson)])

\* The same answer of the sentiment endpoint, and TextBlob fails.
FeedbackLabelless ==
    Feedback(TextService, Response(200, Json(<< <<NoLabelEntry>> >>)),
             Response(200, Json(<< >>)), TextBlobError,
             [keywords_raises |-> FALSE, categories_raises |-> FALSE, np |-> TextBlobError,
              zs |-> Response(200, ZeroShot(<<"customer_service", "quality">>, <<95>>))])

\* Every strategy fails.
FeedbackFailed ==
    Feedback(TextPlain, Response(503, NotJson), Response(503, NotJson), TextBlobError,
             [keywords_raises |-> TRUE, categories_raises |-> TRUE, np |-> TextBlobError,
              zs |-> Response(503, NotJson)])

Feedbacks ==
    {FeedbackNegative, FeedbackPositive, FeedbackMalformed, FeedbackLabelless, FeedbackFailed}

EmptyDict == << >>

SurveyMetadata == [source |-> "survey"]

\* Lines 44-69: the "analysis" dictionary of the record, and whether the try
\* block ran to its end.  analyze_topics and _generate_insights let no
\* exception escape; analyze_sentiment does (its line 125).
single_analysis(key, feedback) ==
    LET sentiment_result ==
            analyze_sentiment(key, "auto", feedback.sent, feedback.emo, feedback.tb)
    IN  IF sentiment_result.raised
        THEN [completed |-> FALSE, analysis |-> [error |-> sentiment_result.exc]]
        ELSE LET topic_result == analyze_topics(key, feedback.text, feedback.topics)
             IN  [completed |-> TRUE,
                  analysis |->
                      [sentiment |-> sentiment_result.value,
                       topics |-> topic_result,
                       insights |-> _generate_insights(sentiment_result.value, topic_result)]]

\* single_analysis is a function of the credential and the piece of feedback
\* alone: its values on the sample feedback.
AnalysisOf == [key \in BOOLEAN, feedback \in Feedbacks |-> single_analysis(key, feedback)]

\* The requests one analyze_single_feedback call sends, in order.
single_requests(key, feedback) ==
    sentiment_requests(key, "auto", feedback.sent)
        \o (IF AnalysisOf[key, feedback].completed THEN hf_topic_requests(key) ELSE << >>)

\* Mutant: the history is replaced by the new record.
analyze_single_feedback_keeps_last(history, key, feedback, metadata) ==
    [result |-> [id |-> Len(history) + 1,
                 original_feedback |-> feedback.text,
                 metadata |-> IF metadata = None THEN << >> ELSE metadata,
                 analysis |-> AnalysisOf[key, feedback].analysis],
     history |-> <<[id |-> Len(history) + 1,
                    original_feedback |-> feedback.text,
                    metadata |-> IF metadata = None THEN << >> ELSE metadata,
                    analysis |-> AnalysisOf[key, feedback].analysis]>>]

\* FeedbackAnalysisAgent.analyze_single_feedback: the record it returns and
\* the history it leaves.
analyze_single_feedback(history, key, feedback, metadata) ==
    LET outcome == AnalysisOf[key, feedback]
        analysis_result ==
            [id |-> Len(history) + 1,
             original_feedback |-> feedback.text,
             metadata |-> IF metadata = None THEN EmptyDict ELSE metadata,   \* metadata or {}
             analysis |-> outcome.analysis]
    IN  [result |-> analysis_result,
         history |-> IF outcome.completed THEN Append(history, analysis_result) ELSE history]

\* zip(feedback_list, metadata_list): as many pairs as the shorter list has.
zip_feedback(feedback_list, metadata_list) ==
    [k \in 1..(IF Len(feedback_list) < Len(metadata_list)
               THEN Len(feedback_list) ELSE Len(metadata_list)) |->
        [feedback |-> feedback_list[k], metadata |-> metadata_list[k]]]

\* Lines 80-86: the loop from pair k on.
RECURSIVE batch_loop(_, _, _, _, _)
batch_loop(history, key, pairs, k, batch_results) ==
    IF k > Len(pairs) THEN [batch_results |-> batch_results, history |-> history]
    ELSE Local(analyze_single_feedback(history, key, pairs[k].feedback, pairs[k].metadata),
               LAMBDA one : batch_loop(one.history, key, pairs, k + 1,
                                       Append(batch_results, one.result)))

\* A metadata_list argument that is a list (the other one is None).
List(l) == [list |-> l]

\* The pairs the loop of analyze_batch_feedback goes through.
batch_pairs(feedback_list, metadata_list) ==
    zip_feedback(feedback_list,
                 IF metadata_list = None
                 THEN Repeat(EmptyDict, Len(feedback_list))               \* line 78
                 ELSE metadata_list.list)

\* Mutant: the report is made from the history instead of the records of the batch.
analyze_batch_feedback_reports_history(history, key, feedback_list, metadata_list) ==
    Local(batch_loop(history, key, batch_pairs(feedback_list, metadata_list), 1, << >>),
          LAMBDA looped :
              [result |->
                   [total_feedback |-> Len(feedback_list),
                    individual_results |-> looped.batch_results,
                    batch_report |-> _generate_batch_report(looped.history)],
               history |-> looped.history])

\* FeedbackAnalysisAgent.analyze_batch_feedback: the dictionary it returns and
\* the history it leaves.
analyze_batch_feedback(history, key, feedback_list, metadata_list) ==
    Local(batch_loop(history, key, batch_pairs(feedback_list, metadata_list), 1, << >>),
          LAMBDA looped :
              [result |->
                   [total_feedback |-> Len(feedback_list),
                    individual_results |-> looped.batch_results,
                    batch_report |-> _generate_batch_report(looped.batch_results)],
               history |-> looped.history])

RECURSIVE batch_requests(_, _, _)
batch_requests(key, pairs, k) ==
    IF k > Len(pairs) THEN << >>
    ELSE single_requests(key, pairs[k].feedback) \o batch_requests(key, pairs, k + 1)

\* The steps of one analyze_single_feedback call, in the order of lines 47, 52,
\* 57 and 61; an exception at line 47 skips the rest.
single_steps(key, feedback) ==
    IF AnalysisOf[key, feedback].completed
    THEN <<"sentiment", "topics", "insights", "append">>
    ELSE <<"sentiment">>

\* The steps of one analyze_batch_feedback call: the ones of each item of the
\* loop of line 83, then the report of line 90.
RECURSIVE batch_steps(_, _, _)
batch_steps(key, pairs, k) ==
    IF k > Len(pairs) THEN <<[item |-> 0, step |-> "report"]>>
    ELSE [j \in 1..Len(single_steps(key, pairs[k].feedback)) |->
             [item |-> k, step |-> single_steps(key, pairs[k].feedback)[j]]]
         \o batch_steps(key, pairs, k + 1)

\* FeedbackAnalysisAgent.get_summary_stats; the timestamps of date_range are
\* left out.  Line 322 is outside any try block.
get_summary_stats(history) ==
    IF history = << >> THEN Returned([message |-> "No analyses performed yet"])   \* line 300
    ELSE IF \E k \in 1..Len(history) : record_sentiment(history[k]).raised
         THEN Raised("KeyError")                                                  \* line 322
    ELSE Returned([total_analyses |-> Len(history),
                   sentiment_breakdown |-> sentiment_counts(sentiments_from(history, 1)),
                   most_common_topics |-> << >>])

---------------------------------------------------------------------------
(* The agent: calls of analyze_single_feedback and analyze_batch_feedback, *)
(* one after the other, on one agent.                                      *)

\* The most analyze_single_feedback calls made on the agent, the ones of a
\* batch included.
MaxCalls == 2

\* The longest feedback_list of a batch.
MaxBatch == 2

FeedbackLists == UNION {[1..n -> Feedbacks] : n \in 0..MaxBatch}

\* No metadata_list, and one that is shorter than, as long as or longer than
\* the feedback_list.
MetadataLists == {None, List(<<SurveyMetadata>>)}

Range(seq) == {seq[i] : i \in 1..Len(seq)}

\* The metadata_list arguments tried with a feedback_list: an explicit list is
\* tried with the feedback lists made of these two pieces of feedback.
MetadataListsFor(feedback_list) ==
    IF Range(feedback_list) \subseteq {FeedbackNegative, FeedbackMalformed}
    THEN MetadataLists ELSE {None}

Init ==
    /\ hf_api_key \in BOOLEAN
    /\ analysis_history = << >>
    /\ requested = {}
    /\ calls = 0
    /\ issued_ids = << >>
    /\ ret = Idle

AnalyzeSingleFeedback ==
    /\ calls < MaxCalls
    /\ \E feedback \in Feedbacks, metadata \in {None, SurveyMetadata} :
        \E done \in {analyze_single_feedback(analysis_history, hf_api_key, feedback, metadata)} :
            /\ ret' = [op |-> "analyze_single_feedback",
                       feedback |-> feedback, metadata |-> metadata,
                       requests |-> single_requests(hf_api_key, feedback),
                       result |-> done.result]
            /\ analysis_history' = done.history
            /\ requested' = requested \cup Range(single_requests(hf_api_key, feedback))
            /\ issued_ids' = Append(issued_ids, done.result.id)
    /\ calls' = calls + 1
    /\ UNCHANGED hf_api_key

AnalyzeBatchFeedback ==
    \E feedback_list \in FeedbackLists :
      \E metadata_list \in MetadataListsFor(feedback_list) :
        LET pairs == batch_pairs(feedback_list, metadata_list)
        IN  /\ calls + Len(pairs) <= MaxCalls
            /\ \E done \in {analyze_batch_feedback(analysis_history, hf_api_key,
                                                   feedback_list, metadata_list)} :
                /\ ret' = [op |-> "analyze_batch_feedback",
                           feedback_list |-> feedback_list, metadata_list |-> metadata_list,
                           requests |-> batch_requests(hf_api_key, pairs, 1),
                           steps |-> batch_steps(hf_api_key, pairs, 1),
                           before |-> analysis_history,
                           result |-> done.result]
                /\ analysis_history' = done.history
                /\ issued_ids' = issued_ids \o [k \in 1..Len(done.result.individual_results) |->
                                                    done.result.individual_results[k].id]
            /\ requested' = requested \cup Range(batch_requests(hf_api_key, pairs, 1))
            /\ calls' = calls + Len(pairs)
            /\ UNCHANGED hf_api_key

\* _generate_batch_report called on the records the agent holds.
GenerateBatchReport ==
    /\ ret' = [op |-> "_generate_batch_report",
               batch_results |-> analysis_history,
               report |-> _generate_batch_report(analysis_history)]
    /\ UNCHANGED <<hf_api_key, analysis_history, requested, calls, issued_ids>>

GetSummaryStats ==
    /\ ret' = [op |-> "get_summary_stats", out |-> get_summary_stats(analysis_history)]
    /\ UNCHANGED <<hf_api_key, analysis_history, requested, calls, issued_ids>>

Next ==
    \/ AnalyzeSingleFeedback
    \/ AnalyzeBatchFeedback
    \/ GenerateBatchReport
    \/ GetSummaryStats

Spec == Init /\ [][Next]_vars

---------------------------------------------------------------------------
(* Claims about the agent, checked under Spec.                             *)

\* The pieces of feedback the last operation analysed, and the records it
\* returned for them.
AnalysedFeedback ==
    IF ret.op = "analyze_single_feedback" THEN <<ret.feedback>>
    ELSE IF ret.op = "analyze_batch_feedback"
         THEN LET pairs == batch_pairs(ret.feedback_list, ret.metadata_list)
              IN  [k \in 1..Len(pairs) |-> pairs[k].feedback]
    ELSE << >>

ReturnedRecords ==
    IF ret.op = "analyze_single_feedback" THEN <<ret.result>>
    ELSE IF ret.op = "analyze_batch_feedback" THEN ret.result.individual_results
    ELSE << >>

\* C5: with no credential configured no remote request is made, the remote
\* strategies return None, and the sentiment result of every analysis is the
\* one of TextBlob, or the failure record when TextBlob fails; no result names
\* a remote strategy.
C5_NoCredentialNoRemote ==
    ~hf_api_key =>
        /\ requested = {}
        /\ "requests" \in DOMAIN ret => ret.requests = << >>
        /\ \A k \in 1..Len(ReturnedRecords) :
            LET feedback == AnalysedFeedback[k]
                analysis == ReturnedRecords[k].analysis
                tb_result == analyze_with_textblob(feedback.tb)
            IN  /\ analyze_with_huggingface(hf_api_key, feedback.sent, feedback.emo) = None
                /\ extract_with_huggingface(hf_api_key, feedback.topics.zs) = None
                /\ "sentiment" \in DOMAIN analysis
                /\ analysis.sentiment =
                       IF tb_result # None THEN tb_result
                       ELSE [error |-> "All sentiment analysis methods failed", success |-> FALSE]
                /\ "huggingface" \notin Range(analysis.topics.methods_used)
                /\ "hf_topics" \notin DOMAIN analysis.topics

\* Without a credential, a piece of feedback the endpoints would have answered
\* was analysed, and one for which TextBlob failed.
C5_Witness ==
    /\ ~hf_api_key
    /\ ret.op = "analyze_batch_feedback"
    /\ ret.feedback_list = <<FeedbackNegative, FeedbackLabelless>>
    /\ ret.metadata_list = None
    /\ ret.result.individual_results[1].analysis.sentiment.method = "textblob"
    /\ IsFailureRecord(ret.result.individual_results[2].analysis.sentiment)

\* C10: a batch of N texts without a metadata_list returns N records in input order, each with the
\* analysis its text gets on its own, whatever strategies fail for the others,
\* and a batch report over all N records.
C10_BatchIsolatesFailures ==
    (ret.op = "analyze_batch_feedback" /\ ret.metadata_list = None) =>
        LET N == Len(ret.feedback_list)
            individual_results == ret.result.individual_results
            batch_report == ret.result.batch_report
        IN  /\ ret.result.total_feedback = N
            /\ Len(individual_results) = N
            /\ \A k \in 1..N :
                /\ individual_results[k].original_feedback = ret.feedback_list[k].text
                /\ individual_results[k].analysis =
                       AnalysisOf[hf_api_key, ret.feedback_list[k]].analysis
            /\ "total_analyzed" \in DOMAIN batch_report.statistics
            /\ batch_report.statistics.total_analyzed = N

\* C11: the ids of the records analyze_single_feedback returned, in call
\* order, start at 1 and increase strictly, failed calls included.
C11_IdsStrictlyIncreasing ==
    /\ issued_ids # << >> => issued_ids[1] = 1
    /\ \A i, j \in 1..Len(issued_ids) : i < j => issued_ids[i] < issued_ids[j]

\* seq1 is a prefix of seq2.
IsPrefix(seq1, seq2) ==
    Len(seq1) <= Len(seq2) /\ SubSeq(seq2, 1, Len(seq1)) = seq1

\* A returned record whose analysis ran to its end.
Completed(record) == "insights" \in DOMAIN record.analysis

\* C12: every step of the agent leaves the earlier history as a prefix of the
\* later one; analyze_single_feedback, called directly or by a batch, appends
\* the record of each call that completes and nothing else, and
\* _generate_batch_report and get_summary_stats leave the history unchanged.
C12_HistoryAppendOnly ==
    [][/\ IsPrefix(analysis_history, analysis_history')
       /\ ret'.op = "analyze_single_feedback" =>
              analysis_history' = analysis_history
                  \o (IF Completed(ret'.result) THEN <<ret'.result>> ELSE << >>)
       /\ ret'.op = "analyze_batch_feedback" =>
              analysis_history' = analysis_history
                  \o SelectSeq(ret'.result.individual_results, Completed)
       /\ ret'.op \in {"_generate_batch_report", "get_summary_stats"} =>
              analysis_history' = analysis_history]_vars

\* Two records are held, one call failed on the way, and a report or the
\* statistics were asked for.
C12_Witness ==
    /\ Len(analysis_history) = 1
    /\ calls = 2
    /\ ret.op \in {"_generate_batch_report", "get_summary_stats"}

\* The place of a step in the per-item order.
StepRank(step) ==
    CASE step = "sentiment" -> 1 [] step = "topics" -> 2 [] step = "insights" -> 3
      [] step = "append" -> 4 [] OTHER -> 5

\* C20: a batch runs its items one after the other, each through sentiment
\* analysis, topic extraction, insight generation and the history append in
\* that order, and makes the report once, after the last item, from the
\* records returned for the items of this batch in input order.
C20_BatchSequential ==
    ret.op = "analyze_batch_feedback" =>
        LET pairs == batch_pairs(ret.feedback_list, ret.metadata_list)
            steps == ret.steps
            individual_results == ret.result.individual_results
        IN  /\ \A i, j \in 1..Len(steps) : i < j =>
                /\ steps[i].step # "report"
                /\ steps[j].step # "report" => steps[i].item <= steps[j].item
                /\ steps[i].item = steps[j].item =>
                       StepRank(steps[i].step) < StepRank(steps[j].step)
            /\ steps[Len(steps)].step = "report"
            /\ \A k \in 1..Len(pairs) :
                \E j \in 1..Len(steps) : steps[j] = [item |-> k, step |-> "sentiment"]
            /\ Len(individual_results) = Len(pairs)
            /\ \A k \in 1..Len(pairs) :
                /\ individual_results[k].original_feedback = pairs[k].feedback.text
                /\ individual_results[k].id =
                       Len(ret.before) + 1
                           + Cardinality({j \in 1..(k - 1) : Completed(individual_results[j])})
                /\ Completed(individual_results[k]) <=>
                       \E j \in 1..Len(steps) : steps[j] = [item |-> k, step |-> "append"]
            /\ analysis_history = ret.before \o SelectSeq(individual_results, Completed)
            /\ ret.result.batch_report = _generate_batch_report(individual_results)

\* A batch of two items after which the history holds one record: the report
\* covers the two records returned, not the history.
C20_Witness ==
    /\ ret.op = "analyze_batch_feedback"
    /\ Len(ret.result.individual_results) = 2
    /\ Len(analysis_history) = 1
    /\ ret.result.batch_report.statistics.total_analyzed = 2

---------------------------------------------------------------------------
(* The batch aggregator on its own: one call of _generate_batch_report on  *)
(* records as analyze_single_feedback returns them.                        *)

WellFormedNegative == Response(200, Json(<< <<LabelEntry("NEGATIVE"), LabelEntry("POSITIVE")>> >>))

\* Sentiment results analyze_sentiment returns: combined NEGATIVE, TextBlob's
\* NEGATIVE, NEUTRAL and POSITIVE, the remote "negative", the failure record,
\* a combined result without remote label, and the remote result alone with
\* an empty ranked list or with an entry without label.
ReportSentiments ==
    {analyze_sentiment(TRUE, "auto", WellFormedNegative, Response(200, JoyRanked), Sentiment(-55, 60)).value,
     analyze_sentiment(FALSE, "auto", NetworkError, NetworkError, Sentiment(-55, 60)).value,
     analyze_sentiment(FALSE, "auto", NetworkError, NetworkError, Sentiment(0, 0)).value,
     analyze_sentiment(FALSE, "auto", NetworkError, NetworkError, Sentiment(100, 60)).value,
     analyze_sentiment(TRUE, "auto", Response(200, Json(<< <<LabelEntry("negative")>> >>)),
                       Response(200, JoyRanked), TextBlobError).value,
     analyze_sentiment(TRUE, "auto", NetworkError, NetworkError, TextBlobError).value,
     analyze_sentiment(TRUE, "auto", Response(200, Json(<< >>)), Response(200, JoyRanked), Sentiment(-55, 60)).value,
     analyze_sentiment(TRUE, "auto", Response(200, Json(<< >>)), Response(200, JoyRanked), TextBlobError).value,
     analyze_sentiment(TRUE, "auto", Response(200, Json(<< <<NoLabelEntry>> >>)),
                       Response(200, JoyRanked), TextBlobError).value}

\* Topic results analyze_topics returns: several categories, other categories,
\* none, and category matching having raised.
ReportTopics ==
    {analyze_topics(FALSE, TextMany, FeedbackNegative.topics),
     analyze_topics(FALSE, TextHelp, FeedbackNegative.topics),
     analyze_topics(FALSE, TextPlain, FeedbackNegative.topics),
     analyze_topics(FALSE, TextCheap, FeedbackFailed.topics)}

\* The part of a record _generate_batch_report reads.
ReportRecord(analysis) == [analysis |-> analysis]

\* Records of calls that completed, and the record of a call that failed.
ReportRecords ==
    {ReportRecord([sentiment |-> sentiment, topics |-> topics]) :
        sentiment \in ReportSentiments, topics \in ReportTopics}
      \cup {ReportRecord([error |-> "KeyError"])}

\* The longest batch made of arbitrary records.
MaxReportBatch == 2

\* The sizes of the batches made of NEGATIVE records and a filler.
ThresholdBatchSizes == {4, 10, 20}

NegativeRecord ==
    ReportRecord([sentiment |-> analyze_sentiment(FALSE, "auto", NetworkError, NetworkError,
                                                  Sentiment(-55, 60)).value,
                  topics |-> analyze_topics(FALSE, TextMany, FeedbackNegative.topics)])

FillerRecords ==
    {ReportRecord([sentiment |-> analyze_sentiment(FALSE, "auto", NetworkError, NetworkError,
                                                   Sentiment(100, 60)).value,
                   topics |-> analyze_topics(FALSE, TextHelp, FeedbackNegative.topics)]),
     ReportRecord([sentiment |-> analyze_sentiment(FALSE, "auto", NetworkError, NetworkError,
                                                   TextBlobError).value,
                   topics |-> analyze_topics(FALSE, TextPlain, FeedbackNegative.topics)])}

ReportBatches ==
    UNION {[1..n -> ReportRecords] : n \in 0..MaxReportBatch}
      \cup {Repeat(NegativeRecord, k) \o Repeat(filler, n - k) :
                n \in ThresholdBatchSizes, k \in 0..5, filler \in FillerRecords}

InitReport ==
    /\ hf_api_key \in BOOLEAN
    /\ analysis_history = << >>
    /\ requested = {}
    /\ calls = 0
    /\ issued_ids = << >>
    /\ ret = Idle

CallGenerateBatchReport ==
    /\ ret = Idle
    /\ \E batch_results \in ReportBatches :
        ret' = [op |-> "_generate_batch_report",
                batch_results |-> batch_results,
                report |-> _generate_batch_report(batch_results)]
    /\ UNCHANGED <<hf_api_key, analysis_history, requested, calls, issued_ids>>

NextReport == CallGenerateBatchReport

SpecReport == InitReport /\ [][NextReport]_vars

---------------------------------------------------------------------------
(* Claims about the batch aggregator, checked under SpecReport.            *)

\* The sentiment result of a record, {} when it has none.
SentimentOf(record) == Get(record.analysis, "sentiment")

\* The categories map of a record, {} when it has none.
CategoriesMapOf(record) ==
    IF "topics" \in DOMAIN record.analysis /\ "categories" \in DOMAIN record.analysis.topics
    THEN record.analysis.topics.categories ELSE << >>

\* The records of a batch whose sentiment result has success = true.
Successful(batch_results) ==
    {k \in 1..Len(batch_results) : GetSuccess(SentimentOf(batch_results[k]))}

\* The sum of the values of a dictionary of counts.
RECURSIVE SumOver(_, _)
SumOver(d, keys) ==
    IF keys = {} THEN 0
    ELSE LET k == CHOOSE x \in keys : TRUE IN d[k] + SumOver(d, keys \ {k})

\* C13: in every batch report the counts of sentiment_distribution sum to
\* statistics.successful_analysis, the number of records whose sentiment result
\* has success = true.
C13_DistributionSumsToSuccessful ==
    ret.op = "_generate_batch_report" =>
        /\ "successful_analysis" \in DOMAIN ret.report.statistics
        /\ ret.report.statistics.successful_analysis = Cardinality(Successful(ret.batch_results))
        /\ SumOver(ret.report.sentiment_distribution, DOMAIN ret.report.sentiment_distribution)
               = ret.report.statistics.successful_analysis

\* The primary label of a successful sentiment result, "" when it has none.
LabelOf(sentiment) ==
    IF "primary_sentiment" \in DOMAIN sentiment THEN sentiment.primary_sentiment
    ELSE IF sentiment.sentiment # << >> /\ "label" \in DOMAIN sentiment.sentiment[1]
         THEN sentiment.sentiment[1].label
    ELSE ""

NegativeCount(batch_results) ==
    Cardinality({k \in Successful(batch_results) : LabelOf(SentimentOf(batch_results[k])) = "NEGATIVE"})

\* C14: for a non-empty batch the recommendations start with the one
\* threshold message chosen by the share of NEGATIVE records among all
\* records (high above 30 %, medium above 15 % up to 30 %, good otherwise),
\* followed by one entry for each of the up to three categories of greatest
\* total_score, in descending order, with the category's mentions.
C14_Recommendations ==
    (ret.op = "_generate_batch_report" /\ ret.batch_results # << >>) =>
        LET total == Len(ret.batch_results)
            negative == NegativeCount(ret.batch_results)
            topic_analysis == ret.report.topic_analysis
            listed == Len(ret.report.recommendations) - 1
            entry(j) == ret.report.recommendations[j + 1]
        IN  /\ ret.report.recommendations # << >>
            /\ ret.report.recommendations[1] =
                   IF negative * 100 > 30 * total THEN HighPriority
                   ELSE IF negative * 100 > 15 * total THEN MediumPriority
                   ELSE Good
            /\ listed = IF Cardinality(DOMAIN topic_analysis) < 3
                        THEN Cardinality(DOMAIN topic_analysis) ELSE 3
            /\ \A j \in 1..listed :
                /\ entry(j).topic \in DOMAIN topic_analysis
                /\ entry(j) = FocusOn(entry(j).topic, topic_analysis[entry(j).topic].mentions)
                /\ \A i \in 1..(j - 1) :
                    /\ entry(i).topic # entry(j).topic
                    /\ topic_analysis[entry(i).topic].total_score
                           >= topic_analysis[entry(j).topic].total_score
                /\ \A c \in DOMAIN topic_analysis \ {entry(i).topic : i \in 1..listed} :
                    topic_analysis[c].total_score <= topic_analysis[entry(j).topic].total_score

\* C15: the report of an empty batch carries no error field.
C15_EmptyBatchNoError ==
    (ret.op = "_generate_batch_report" /\ ret.batch_results = << >>) =>
        "error" \notin DOMAIN ret.report

\* C18: topic_analysis holds exactly the categories of the records'
\* categories maps, each with the sum of its scores and the number of records
\* that hold it.
C18_TopicAnalysis ==
    ret.op = "_generate_batch_report" =>
        LET batch_results == ret.batch_results
            topic_analysis == ret.report.topic_analysis
            holding(c) == {k \in 1..Len(batch_results) : c \in DOMAIN CategoriesMapOf(batch_results[k])}
            ScoreIn(c, S) == SumSeq([k \in 1..Len(batch_results) |->
                                        IF k \in S THEN CategoriesMapOf(batch_results[k])[c].score
                                        ELSE 0], 1)
        IN  /\ DOMAIN topic_analysis =
                   UNION {DOMAIN CategoriesMapOf(batch_results[k]) : k \in 1..Len(batch_results)}
            /\ \A c \in DOMAIN topic_analysis :
                /\ topic_analysis[c].total_score = ScoreIn(c, holding(c))
                /\ topic_analysis[c].mentions = Cardinality(holding(c))
                /\ topic_analysis[c].mentions <= Len(batch_results)
                /\ topic_analysis[c].total_score >= topic_analysis[c].mentions

---------------------------------------------------------------------------
(* The topic extractor on its own: calls of its methods on the sample      *)
(* texts, with every environment.                                          *)

InitTopics ==
    /\ hf_api_key \in BOOLEAN
    /\ analysis_history = << >>
    /\ requested = {}
    /\ calls = 0
    /\ issued_ids = << >>
    /\ ret = Idle

CallExtractKeywordsSimple ==
    /\ ret = Idle
    /\ \E text \in Texts :
        ret' = [op |-> "extract_keywords_simple", text |-> text, result |-> KeywordsOf[text]]
    /\ UNCHANGED <<hf_api_key, analysis_history, requested, calls, issued_ids>>

\* extract_topics_with_categories, called once or twice on the extractor; the
\* second call keeps what the first one was given and returned.
CallExtractTopicsWithCategories ==
    /\ \/ ret = Idle
       \/ ret.op = "extract_topics_with_categories" /\ "previous" \notin DOMAIN ret
    /\ \E text \in Texts :
        ret' = [op |-> "extract_topics_with_categories", text |-> text,
                result |-> CategoriesOf[text]]
               @@ (IF ret = Idle THEN << >>
                   ELSE [previous |-> [text |-> ret.text, result |-> ret.result]])
    /\ UNCHANGED <<hf_api_key, analysis_history, requested, calls, issued_ids>>

CallAnalyzeTopics ==
    /\ ret = Idle
    /\ \E text \in Texts, env \in TopicEnvs :
        /\ ret' = [op |-> "analyze_topics", text |-> text, env |-> env,
                   requests |-> hf_topic_requests(hf_api_key),
                   result |-> analyze_topics(hf_api_key, text, env)]
        /\ requested' = requested \cup Range(hf_topic_requests(hf_api_key))
    /\ UNCHANGED <<hf_api_key, analysis_history, calls, issued_ids>>

NextTopics ==
    \/ CallExtractKeywordsSimple
    \/ CallExtractTopicsWithCategories
    \/ CallAnalyzeTopics

SpecTopics == InitTopics /\ [][NextTopics]_vars

---------------------------------------------------------------------------
(* Claims about the topic extractor, checked under SpecTopics.             *)

\* The places of text where sub occurs.
Occurrences(text, sub) ==
    {i \in 1..(Len(text) - Len(sub) + 1) : SubSeq(text, i, i + Len(sub) - 1) = sub}

\* The greatest number of occurrences of sub in text no two of which overlap.
NonOverlapping(text, sub) ==
    LET disjoint == {S \in SUBSET Occurrences(text, sub) :
                        \A i, j \in S : i < j => i + Len(sub) <= j}
    IN  CHOOSE n \in 0..Len(text) :
            /\ \E S \in disjoint : Cardinality(S) = n
            /\ \A S \in disjoint : Cardinality(S) <= n

\* C16: extract_topics_with_categories returns a map over the 8 categories
\* that holds a category iff one of its keywords occurs in the lower-cased
\* text; the score is the sum over the category's keywords of their
\* non-overlapping occurrences, matched_keywords holds each keyword once per
\* occurrence, a keyword of two categories counts for both, and a second call
\* on the same text returns the same map.
C16_CategoryMatching ==
    ret.op = "extract_topics_with_categories" =>
        LET text_lower == lower(ret.text)
            occurs(k, j) == NonOverlapping(text_lower, product_keywords[k].keywords[j])
        IN  /\ Cardinality(Categories) = 8
            /\ DOMAIN ret.result \subseteq Categories
            /\ \A k \in 1..Len(product_keywords) :
                LET category == product_keywords[k].category
                    keywords == product_keywords[k].keywords
                IN  /\ category \in DOMAIN ret.result <=>
                           \E j \in 1..Len(keywords) : Occurrences(text_lower, keywords[j]) # {}
                    /\ category \in DOMAIN ret.result =>
                        /\ ret.result[category].score =
                               SumSeq([j \in 1..Len(keywords) |-> occurs(k, j)], 1)
                        /\ Len(ret.result[category].matched_keywords) = ret.result[category].score
                        /\ \A j \in 1..Len(keywords) :
                               Cardinality({i \in 1..Len(ret.result[category].matched_keywords) :
                                               ret.result[category].matched_keywords[i] = keywords[j]})
                                   = occurs(k, j)
            /\ ("previous" \in DOMAIN ret /\ ret.previous.text = ret.text) =>
                   ret.previous.result = ret.result

\* The second of two calls on a text in which "help" occurs twice and "solid"
\* and "quality" once.
C16_Witness ==
    /\ ret.op = "extract_topics_with_categories"
    /\ "previous" \in DOMAIN ret
    /\ ret.previous.text = ret.text
    /\ ret.text = TextHelp
    /\ ret.result["customer_service"].score = 4
    /\ ret.result["quality"].score = 2

\* A quotient within [0, 1].
InUnitInterval(q) == q.den > 0 /\ 0 <= q.num /\ q.num <= q.den

\* C17: every relevance of a topic result and every confidence of its summary
\* lies in [0, 1].
C17_RelevanceInUnitInterval ==
    ret.op = "analyze_topics" =>
        /\ "keywords" \in DOMAIN ret.result =>
               \A k \in 1..Len(ret.result.keywords) : InUnitInterval(ret.result.keywords[k].relevance)
        /\ "categories" \in DOMAIN ret.result =>
               \A c \in DOMAIN ret.result.categories : InUnitInterval(ret.result.categories[c].relevance)
        /\ \A k \in 1..Len(ret.result.summary.primary_topics) :
               InUnitInterval(ret.result.summary.primary_topics[k].confidence)

---------------------------------------------------------------------------
(* A further claim about the sentiment analyzer, checked under             *)
(* SpecSentiment.                                                          *)

\* C19: with preferred_method "auto" every analyze_sentiment call attempts
\* the remote strategy first and TextBlob second, TextBlob also when the
\* remote strategy yielded a result: what is returned is made of all the
\* results yielded, the remote one first.
C19_AutoAttemptsBothInOrder ==
    (ret.op = "analyze_sentiment" /\ ret.preferred_method = "auto") =>
        /\ ret.attempted = <<"huggingface", "textblob">>
        /\ hf_api_key => (ret.requests # << >> /\ ret.requests[1] = "sentiment")
        /\ ~ret.out.raised =>
               IF Yielded = << >> THEN IsFailureRecord(ret.out.value)
               ELSE IF Len(Yielded) = 1 THEN ret.out.value = Yielded[1]
               ELSE /\ IsCombined(ret.out.value)
                    /\ ret.out.value.combined_results = Yielded
                    /\ ret.out.value.methods_used = <<"huggingface", "textblob">>

\* The remote strategy yielded a result and TextBlob was attempted all the same.
C19_Witness ==
    /\ ret.op = "analyze_sentiment"
    /\ ret.preferred_method = "auto"
    /\ ret.hf_result # None
    /\ ret.tb_result # None
    /\ ~ret.out.raised
    /\ ret.out.value.combined_results = <<ret.hf_result, ret.tb_result>>

---------------------------------------------------------------------------
(* A further claim about the topic extractor, checked under SpecTopics.    *)

\* The strategies that succeeded in the last analyze_topics call, in the
\* fixed order: the ones that did not raise, the remote one when the
\* credential is set and the endpoint answered 200 with a body holding
\* labels and scores.
SucceededStrategies ==
    (IF ret.env.keywords_raises THEN << >> ELSE <<"keyword_frequency">>)
        \o (IF ret.env.categories_raises THEN << >> ELSE <<"category_matching">>)
        \o (IF ret.env.np.raises THEN << >> ELSE <<"noun_phrases">>)
        \o (IF /\ hf_api_key
               /\ ~ret.env.zs.raises
               /\ ret.env.zs.status_code = 200
               /\ ret.env.zs.body.valid
            THEN <<"huggingface">> ELSE << >>)

\* The field of the result each strategy fills.
FieldOf(strategy) ==
    CASE strategy = "keyword_frequency" -> "keywords"
      [] strategy = "category_matching" -> "categories"
      [] strategy = "noun_phrases" -> "noun_phrases"
      [] OTHER -> "hf_topics"

\* C21: whatever strategies fail, analyze_topics returns success = true with a
\* summary, the fields of exactly the strategies that succeeded, and
\* methods_used listing exactly those strategies in the fixed order.
C21_TopicStrategiesIndependent ==
    ret.op = "analyze_topics" =>
        /\ ret.result.success = TRUE
        /\ "summary" \in DOMAIN ret.result
        /\ ret.result.methods_used = SucceededStrategies
        /\ \A strategy \in {"keyword_frequency", "category_matching", "noun_phrases", "huggingface"} :
            FieldOf(strategy) \in DOMAIN ret.result <=> strategy \in Range(SucceededStrategies)

---------------------------------------------------------------------------
(* A further claim about the agent, checked under Spec.                    *)

\* C22: for every feedback_list and metadata_list, total_feedback is the
\* number of individual_results and the total_analyzed of the report, and
\* every text of feedback_list has its one record.
C22_TotalsAgree ==
    ret.op = "analyze_batch_feedback" =>
        /\ ret.result.total_feedback = Len(ret.result.individual_results)
        /\ "total_analyzed" \in DOMAIN ret.result.batch_report.statistics
        /\ ret.result.batch_report.statistics.total_analyzed = ret.result.total_feedback
        /\ Len(ret.result.individual_results) = Len(ret.feedback_list)
        /\ \A k \in 1..Len(ret.feedback_list) :
            ret.result.individual_results[k].original_feedback = ret.feedback_list[k].text

=============================================================================
